---- MODULE Spec2Model ----
(***************************************************************************)
(* A model of seq.ts (src/src/seq.ts): the Seq<T> wrapper over a one-shot   *)
(* iterator, its lazy adapters (map, filter, concat, zip, initInfinite),    *)
(* its terminal operations (forEach, find, findIndex, every, some,          *)
(* includes, reduce) and its eager copies (sort, reverse).                  *)
(*                                                                         *)
(* The program state is the object store: every iterator object and every  *)
(* Seq instance is one record of `heap`; an object's id is its position.    *)
(* Three history variables record what a caller can observe: the steps the *)
(* consumer received from next() (`out`), the callback invocations         *)
(* (`calls`) and every next() issued on any object (`pulls`).  `res` holds  *)
(* the outcome of the last terminal operation.                             *)
(***************************************************************************)
EXTENDS Integers, Sequences, FiniteSets, TLC

VARIABLES heap, out, calls, pulls, res

vars == <<heap, out, calls, pulls, res>>

(***************************************************************************)
(* Bounds of the model.                                                    *)
(***************************************************************************)
MaxLen == 2
MaxPulls == 4
MaxObjs == 8

(***************************************************************************)
(* JavaScript values.  Every value is a record of the same shape so that   *)
(* any two values can be compared: t is the type tag, n a number, a the    *)
(* components.                                                             *)
(***************************************************************************)
Undef == [t |-> "undefined", n |-> 0, a |-> <<>>]
Num(k) == [t |-> "number", n |-> k, a |-> <<>>]
Bool(b) == [t |-> "boolean", n |-> IF b THEN 1 ELSE 0, a |-> <<>>]
Pair(x, y) == [t |-> "array", n |-> 2, a |-> <<x, y>>]
SeqRef(id) == [t |-> "Seq", n |-> id, a |-> <<>>]
\* the value an uninterpreted callback fn returns for arguments args, index i
App(fn, args, i) == [t |-> fn, n |-> i, a |-> args]

\* the elements a source array may hold: undefined, the falsy 0, and 1
Elems == {Undef, Num(0), Num(1)}

RECURSIVE ArraysOfLen(_)
ArraysOfLen(k) ==
  IF k = 0 THEN {<<>>}
  ELSE {Append(xs, x) : xs \in ArraysOfLen(k - 1), x \in Elems}

Arrays == UNION {ArraysOfLen(k) : k \in 0..MaxLen}

\* an iterator result {done, value}
Step(d, v) == [done |-> d, value |-> v]

\* a JavaScript value used as a condition
Truthy(v) ==
  /\ v # Undef
  /\ v # Bool(FALSE)
  /\ v # Num(0)
  /\ v.t # "NaN"

(***************************************************************************)
(* The object store.  kind is the object's class or closure:               *)
(*   "ArrayIterator"  the iterator of an array: arr, pos                    *)
(*   "Seq"            a Seq instance: iterator (line 31)                    *)
(*   "map"            the iterator literal of map: this, fn, pos = index    *)
(*   "filter"         the iterator literal of filter: this, fn, pos = index *)
(*   "concat"         the iterator literal of concat: arr = items,          *)
(*                    pos = itemIndex, iterator                             *)
(*   "zip"            the iterator literal of zip: iterator, iterator2      *)
(*   "initInfinite"   the iterator literal of initInfinite: pos = index     *)
(***************************************************************************)
Obj(kind, arr, pos, iterator, iterator2, this, fn) ==
  [kind |-> kind, arr |-> arr, pos |-> pos, iterator |-> iterator,
   iterator2 |-> iterator2, this |-> this, fn |-> fn]

\* an evaluation environment: the store and the two logs an evaluation extends
Env(h, c, p) == [heap |-> h, calls |-> c, pulls |-> p]

\* the outcome of a call that may throw: err is "" or the error thrown
Ret(e, step, err) == [e |-> e, step |-> step, err |-> err]

Alloc(e, o) == [e EXCEPT !.heap = Append(@, o)]

\* the id of the object allocated last
Last(e) == Len(e.heap)

\* new Seq(iterable) for an iterable whose [Symbol.iterator]() is object it
NewSeq(e, it) == Alloc(e, Obj("Seq", <<>>, 0, it, 0, 0, ""))

\* new Seq(array): the array's [Symbol.iterator]() is a fresh array iterator
NewSeqOfArray(e, arr) ==
  LET e1 == Alloc(e, Obj("ArrayIterator", arr, 0, 0, 0, 0, ""))
  IN NewSeq(e1, Last(e1))

\* Seq.of(...values)
SeqOf(e, values) == NewSeqOfArray(e, values)

(***************************************************************************)
(* The callbacks a caller may supply.  "f" and "g" are uninterpreted: their *)
(* result records the arguments they were given.  The predicates return    *)
(* booleans.  "entries" and "keys" are the arrow functions of lines 79, 83. *)
(***************************************************************************)
\* "is0", "is1", ...: the predicate that holds of the number k alone
IsNames == <<"is0", "is1", "is2", "is3", "is4", "is5", "is6", "is7">>
IsName(k) == IsNames[k + 1]

UserValue(fn, args, index) ==
  CASE fn = "entries" -> Pair(Num(index), args[1])
    [] fn = "keys" -> Num(index)
    [] fn = "isOne" -> Bool(args[1] = Num(1))
    [] fn = "isZero" -> Bool(args[1] = Num(0))
    [] fn = "isUndefined" -> Bool(args[1] = Undef)
    [] fn = "evenIndex" -> Bool(index % 2 = 0)
    [] fn = "oddIndex" -> Bool(index % 2 = 1)
    [] fn = "keepOrThrow" -> Bool(TRUE)
    [] fn = "skipOrThrow" -> Bool(FALSE)
    [] \E k \in 0..(Len(IsNames) - 1) : fn = IsName(k) ->
         Bool(\E k \in 0..(Len(IsNames) - 1) : fn = IsName(k) /\ args[1] = Num(k))
    [] OTHER -> App(fn, args, index)

\* inverse(func, thisArg) (lines 23-24): the callback "!" func
InverseNames ==
  [isOne |-> "!isOne", isZero |-> "!isZero", isUndefined |-> "!isUndefined",
   evenIndex |-> "!evenIndex", oddIndex |-> "!oddIndex"]
inverse(fn) == InverseNames[fn]
IsInverse(fn) == \E g \in DOMAIN InverseNames : InverseNames[g] = fn
Original(fn) == CHOOSE g \in DOMAIN InverseNames : InverseNames[g] = fn

CallbackValue(fn, args, index) ==
  IF IsInverse(fn)
  THEN Bool(~Truthy(UserValue(Original(fn), args, index)))
  ELSE UserValue(fn, args, index)

\* the error thrown by the callbacks "keepOrThrow" and "skipOrThrow", which
\* throw when the element they are given is 1
ErrCallback == "Error: thrown by the callback"

\* callback fn throws on arguments args, the element being the last of them
Throws(fn, args) == fn \in {"keepOrThrow", "skipOrThrow"} /\ args[Len(args)] = Num(1)

\* callback(args..., index, this): the invocation is logged; an inverse
\* invokes the function it wraps, and that invocation is the one logged;
\* err is "" or the error the callback throws
Call(e, fn, args, index, this) ==
  [e |-> [e EXCEPT !.calls =
            Append(@, [fn |-> IF IsInverse(fn) THEN Original(fn) ELSE fn,
                       args |-> args, index |-> index, this |-> this])],
   value |-> CallbackValue(fn, args, index),
   err |-> IF Throws(fn, args) THEN ErrCallback ELSE ""]

RECURSIVE IterNext(_, _, _)

\* const x = v; Body(x): v is evaluated once and its value named
LetIn(v, Body(_)) == CHOOSE y \in {Body(x) : x \in {v}} : TRUE

\* next() of an array iterator
ArrayNext(e, id) ==
  LET o == e.heap[id]
  IN IF o.pos < Len(o.arr)
     THEN Ret([e EXCEPT !.heap[id].pos = o.pos + 1], Step(FALSE, o.arr[o.pos + 1]), "")
     ELSE Ret(e, Step(TRUE, Undef), "")

\* Seq.next (lines 37-39): delegates to the owned iterator
SeqNext(e, id) == IterNext(e, id, e.heap[id].iterator)

\* map's result with the source array's cursor put back when the callback
\* throws
MapResultRewinds(r, id) ==
  LET o == r.e.heap[id]
      cursor == r.e.heap[o.this].iterator
  IN IF r.err # "" THEN r
     ELSE IF r.step.value # Undef
     THEN LET c == Call(r.e, o.fn, <<r.step.value>>, o.pos, o.this)
          IN IF c.err # ""
             THEN Ret([c.e EXCEPT !.heap[cursor].pos = @ - 1], Step(FALSE, Undef), c.err)
             ELSE Ret([c.e EXCEPT !.heap[id].pos = o.pos + 1],
                      Step(r.step.done, c.value), "")
     ELSE Ret(r.e, Step(r.step.done, Bool(FALSE)), "")

\* map's result with the callback guarded by `value &&` instead of
\* `value !== undefined &&`
MapResultSkipsFalsy(r, id) ==
  LET o == r.e.heap[id]
  IN IF r.err # "" THEN r
     ELSE IF Truthy(r.step.value)
     THEN LET c == Call(r.e, o.fn, <<r.step.value>>, o.pos, o.this)
          IN Ret([c.e EXCEPT !.heap[id].pos = o.pos + 1],
                 Step(r.step.done, c.value), "")
     ELSE Ret(r.e, Step(r.step.done, Bool(FALSE)), "")

\* lines 68-71 of map's next, for the result r of pulling the source
MapResult(r, id) ==
  LET o == r.e.heap[id]
  IN IF r.err # "" THEN r
     ELSE IF r.step.value # Undef
     THEN LET c == Call(r.e, o.fn, <<r.step.value>>, o.pos, o.this)
          IN Ret([c.e EXCEPT !.heap[id].pos = o.pos + 1],
                 Step(r.step.done, c.value), c.err)
     ELSE Ret(r.e, Step(r.step.done, Bool(FALSE)), "")

\* map's next pulling the source Seq through its next() method
MapNextThroughSeq(e, id) ==
  LetIn(IterNext(e, id, e.heap[id].this), LAMBDA r : MapResult(r, id))

\* the next closure of map (lines 65-72)
MapNext(e, id) ==
  LetIn(IterNext(e, id, e.heap[e.heap[id].this].iterator),
        LAMBDA r : MapResult(r, id))

\* filter's loop with the index advanced for survivors only
RECURSIVE FilterLoopSurvivorIndex(_, _)
FilterLoopSurvivorIndex(r, id) ==
  IF r.err # "" \/ r.step.done THEN r
  ELSE LET o == r.e.heap[id]
           c == Call(r.e, o.fn, <<r.step.value>>, o.pos, o.this)
       IN IF Truthy(c.value)
          THEN Ret([c.e EXCEPT !.heap[id].pos = o.pos + 1], r.step, "")
          ELSE LetIn(IterNext(c.e, id, c.e.heap[o.this].iterator),
                     LAMBDA r2 : FilterLoopSurvivorIndex(r2, id))

\* filter's loop pulling the element after a survivor before it returns
RECURSIVE FilterLoopLookahead(_, _)
FilterLoopLookahead(r, id) ==
  IF r.err # "" \/ r.step.done THEN r
  ELSE LET o == r.e.heap[id]
           c == Call(r.e, o.fn, <<r.step.value>>, o.pos, o.this)
           e1 == [c.e EXCEPT !.heap[id].pos = o.pos + 1]
       IN LetIn(IterNext(e1, id, e1.heap[o.this].iterator), LAMBDA r2 :
            IF Truthy(c.value) THEN Ret(r2.e, r.step, "")
            ELSE FilterLoopLookahead(r2, id))

\* the while loop of filter's next closure (lines 101-105), entered with result r
RECURSIVE FilterLoop(_, _)
FilterLoop(r, id) ==
  IF r.err # "" \/ r.step.done THEN r
  ELSE LET o == r.e.heap[id]
           c == Call(r.e, o.fn, <<r.step.value>>, o.pos, o.this)
           e1 == [c.e EXCEPT !.heap[id].pos = o.pos + 1]
       IN IF c.err # "" THEN Ret(e1, r.step, c.err)
          ELSE IF Truthy(c.value) THEN Ret(e1, r.step, "")
          ELSE LetIn(IterNext(e1, id, e1.heap[o.this].iterator),
                     LAMBDA r2 : FilterLoop(r2, id))

\* the next closure of filter (lines 98-106)
FilterNext(e, id) ==
  LetIn(IterNext(e, id, e.heap[e.heap[id].this].iterator),
        LAMBDA r : FilterLoop(r, id))

\* the store after concat's next has moved on to items[itemIndex] (lines 242-243)
ConcatAdvance(e, id, itemIndex) ==
  LET nextItem == e.heap[id].arr[itemIndex + 1]
      e1 == IF nextItem.t = "Seq" THEN e ELSE SeqOf(e, <<nextItem>>)
      it == IF nextItem.t = "Seq" THEN nextItem.n ELSE Last(e1)
  IN [e1 EXCEPT !.heap[id].pos = itemIndex, !.heap[id].iterator = it]

\* concat's next with itemIndex wrapping round to the first item
RECURSIVE ConcatNextRewinds(_, _)
ConcatNextRewinds(e, id) ==
  LetIn(IterNext(e, id, e.heap[id].iterator), LAMBDA r :
    LET o == r.e.heap[id]
    IN IF r.err # "" \/ ~r.step.done THEN r
       ELSE IF o.pos + 1 < Len(o.arr)
       THEN LetIn(ConcatAdvance(r.e, id, o.pos + 1),
                  LAMBDA e2 : ConcatNextRewinds(e2, id))
       ELSE Ret(ConcatAdvance(r.e, id, 0), Step(TRUE, Undef), ""))

\* the next function of concat's iterator literal (lines 233-250)
RECURSIVE ConcatNext(_, _)
ConcatNext(e, id) ==
  LetIn(IterNext(e, id, e.heap[id].iterator), LAMBDA r :
    LET o == r.e.heap[id]
    IN IF r.err # "" \/ ~r.step.done THEN r
       ELSE IF o.pos + 1 < Len(o.arr)
       THEN LetIn(ConcatAdvance(r.e, id, o.pos + 1),
                  LAMBDA e2 : ConcatNext(e2, id))
       ELSE Ret([r.e EXCEPT !.heap[id].pos = o.pos + 1], Step(TRUE, Undef), ""))

\* zip's next ending only when the first source ends
ZipNextFirstOnly(e, id) ==
  LetIn(IterNext(e, id, e.heap[id].iterator), LAMBDA item1 :
    IF item1.err # "" THEN item1
    ELSE LetIn(IterNext(item1.e, id, item1.e.heap[id].iterator2), LAMBDA item2 :
      IF item2.err # "" THEN item2
      ELSE IF item1.step.done
      THEN Ret(item2.e, Step(TRUE, Undef), "")
      ELSE Ret(item2.e, Step(FALSE, Pair(item1.step.value, item2.step.value)), "")))

\* zip's next leaving the second source alone once the first is exhausted
ZipNextShortCircuit(e, id) ==
  LetIn(IterNext(e, id, e.heap[id].iterator), LAMBDA item1 :
    IF item1.err # "" THEN item1
    ELSE IF item1.step.done THEN Ret(item1.e, Step(TRUE, Undef), "")
    ELSE LetIn(IterNext(item1.e, id, item1.e.heap[id].iterator2), LAMBDA item2 :
      IF item2.err # "" THEN item2
      ELSE IF item2.step.done
      THEN Ret(item2.e, Step(TRUE, Undef), "")
      ELSE Ret(item2.e, Step(FALSE, Pair(item1.step.value, item2.step.value)), "")))

\* the next closure of zip (lines 288-296)
ZipNext(e, id) ==
  LetIn(IterNext(e, id, e.heap[id].iterator), LAMBDA item1 :
    IF item1.err # "" THEN item1
    ELSE LetIn(IterNext(item1.e, id, item1.e.heap[id].iterator2), LAMBDA item2 :
      IF item2.err # "" THEN item2
      ELSE IF item1.step.done \/ item2.step.done
      THEN Ret(item2.e, Step(TRUE, Undef), "")
      ELSE Ret(item2.e, Step(FALSE, Pair(item1.step.value, item2.step.value)), "")))

\* the next closure of initInfinite (line 274)
InfiniteNext(e, id) ==
  Ret([e EXCEPT !.heap[id].pos = e.heap[id].pos + 1],
      Step(FALSE, Num(e.heap[id].pos)), "")

\* next() of Array(count).keys(): the indices of the array
ArrayKeysNext(e, id) ==
  LET o == e.heap[id]
  IN IF o.pos < Len(o.arr)
     THEN Ret([e EXCEPT !.heap[id].pos = o.pos + 1], Step(FALSE, Num(o.pos)), "")
     ELSE Ret(e, Step(TRUE, Undef), "")

\* iterator.next() issued by object `by` on object id; the pull is logged
\* when it returns
IterNext(e, by, id) ==
  LetIn(LET k == e.heap[id].kind
        IN CASE k = "ArrayIterator" -> ArrayNext(e, id)
             [] k = "Seq" -> SeqNext(e, id)
             [] k = "map" -> MapNext(e, id)
             [] k = "filter" -> FilterNext(e, id)
             [] k = "concat" -> ConcatNext(e, id)
             [] k = "zip" -> ZipNext(e, id)
             [] k = "initInfinite" -> InfiniteNext(e, id)
             [] k = "ArrayKeys" -> ArrayKeysNext(e, id),
        LAMBDA r :
          [r EXCEPT !.e.pulls = Append(@, [by |-> by, on |-> id, step |-> r.step])])

\* Seq.map (lines 57-76): the iterator literal is created by the constructor
SeqMap(e, s, fn) ==
  LET e1 == Alloc(e, Obj("map", <<>>, 0, 0, 0, s, fn))
  IN NewSeq(e1, Last(e1))

\* Seq.filter (lines 90-110)
SeqFilter(e, s, fn) ==
  LET e1 == Alloc(e, Obj("filter", <<>>, 0, 0, 0, s, fn))
  IN NewSeq(e1, Last(e1))

\* Seq.empty (line 257), created when the class is defined
Env0 == NewSeqOfArray(Env(<<>>, <<>>, <<>>), <<>>)
Empty == Last(Env0)

\* the result of an operation that returns a Seq: the store and the Seq's id
Made(e, seq) == [e |-> e, seq |-> seq]

\* static concat pulling its first item while it is constructed
SeqConcatPulling(e, items) ==
  IF Len(items) < 1 THEN Made(e, Empty)
  ELSE LET nextItem == items[1]
           e1 == IF nextItem.t = "Seq" THEN e ELSE SeqOf(e, <<nextItem>>)
           it == IF nextItem.t = "Seq" THEN nextItem.n ELSE Last(e1)
           e2 == Alloc(e1, Obj("concat", items, 0, it, 0, 0, ""))
           e3 == NewSeq(e2, Last(e2))
       IN LetIn(IterNext(e3, Last(e2), it), LAMBDA r : Made(r.e, Last(e3)))

\* static Seq.concat (lines 222-255); an item is a SeqRef or a bare value
SeqConcat(e, items) ==
  IF Len(items) < 1 THEN Made(e, Empty)
  ELSE LET nextItem == items[1]
           e1 == IF nextItem.t = "Seq" THEN e ELSE SeqOf(e, <<nextItem>>)
           it == IF nextItem.t = "Seq" THEN nextItem.n ELSE Last(e1)
           e2 == Alloc(e1, Obj("concat", items, 0, it, 0, 0, ""))
           e3 == NewSeq(e2, Last(e2))
       IN Made(e3, Last(e3))

\* instance concat with `this` placed after the items
SeqConcatThisLast(e, s, items) == SeqConcat(e, items \o <<SeqRef(s)>>)

\* instance concat (lines 218-220)
SeqConcatThis(e, s, items) == SeqConcat(e, <<SeqRef(s)>> \o items)

\* Seq.zip (lines 281-300) of two iterables whose iterators are it1 and it2
SeqZip(e, it1, it2) ==
  LET e1 == Alloc(e, Obj("zip", <<>>, 0, it1, it2, 0, ""))
  IN NewSeq(e1, Last(e1))

\* Seq.zip of two arrays: each array's [Symbol.iterator]() is a fresh iterator
SeqZipArrays(e, xs, ys) ==
  LET e1 == Alloc(e, Obj("ArrayIterator", xs, 0, 0, 0, 0, ""))
      e2 == Alloc(e1, Obj("ArrayIterator", ys, 0, 0, 0, 0, ""))
  IN SeqZip(e2, Last(e1), Last(e2))

\* Seq.initInfinite (lines 269-279); initializer "" stands for none
SeqInitInfinite(e, initializer) ==
  LET e1 == Alloc(e, Obj("initInfinite", <<>>, 0, 0, 0, 0, ""))
      e2 == NewSeq(e1, Last(e1))
  IN IF initializer # "" THEN SeqMap(e2, Last(e2), initializer) ELSE e2

\* Seq.init (lines 261-265): Array(count) is an array of count holes
SeqInit(e, count, initializer) ==
  LET e1 == Alloc(e, Obj("ArrayKeys", [i \in 1..count |-> Undef], 0, 0, 0, 0, ""))
      e2 == NewSeq(e1, Last(e1))
  IN IF initializer # "" THEN SeqMap(e2, Last(e2), initializer) ELSE e2

(***************************************************************************)
(* Terminal operations.  An operation returns Outcome(e, ret, err): the    *)
(* store it leaves, and either the value returned or the error thrown.     *)
(***************************************************************************)
Outcome(e, ret, err) == [e |-> e, ret |-> ret, err |-> err]

\* thrown by the array destructuring pattern [a, b] on a value that is not
\* iterable (lines 115, 125, 143, 178, 187)
ErrNotIterable == "TypeError: value is not iterable"
\* thrown at line 180
ErrEmptyReduce == "TypeError: Reduce of empty Seq with no initial value"

Destructurable(v) == v.t = "array"

NotFound == [index |-> -1, item |-> Undef]

\* the find loop pulling the element after the match before it returns
RECURSIVE FindLoopLookahead(_, _, _, _)
FindLoopLookahead(e, it, s, fn) ==
  LetIn(IterNext(e, s, it), LAMBDA r :
    IF r.err # "" THEN Outcome(r.e, NotFound, r.err)
    ELSE IF r.step.done THEN Outcome(r.e, NotFound, "")
    ELSE IF ~Destructurable(r.step.value) THEN Outcome(r.e, NotFound, ErrNotIterable)
    ELSE LET index == r.step.value.a[1].n
             item == r.step.value.a[2]
             c == Call(r.e, fn, <<item>>, index, s)
         IN IF Truthy(c.value)
            THEN LetIn(IterNext(c.e, s, it), LAMBDA r2 :
                   Outcome(r2.e, [index |-> index, item |-> item], ""))
            ELSE FindLoopLookahead(c.e, it, s, fn))

\* for (const [index, item] of it) { if (callback(item, index, this)) return }
\* (lines 115-119, 125-129); ret is the [index, item] the loop returned at
RECURSIVE FindLoop(_, _, _, _)
FindLoop(e, it, s, fn) ==
  LetIn(IterNext(e, s, it), LAMBDA r :
    IF r.err # "" THEN Outcome(r.e, NotFound, r.err)
    ELSE IF r.step.done THEN Outcome(r.e, NotFound, "")
    ELSE IF ~Destructurable(r.step.value) THEN Outcome(r.e, NotFound, ErrNotIterable)
    ELSE LET index == r.step.value.a[1].n
             item == r.step.value.a[2]
             c == Call(r.e, fn, <<item>>, index, s)
         IN IF c.err # "" THEN Outcome(c.e, NotFound, c.err)
            ELSE IF Truthy(c.value)
            THEN Outcome(c.e, [index |-> index, item |-> item], "")
            ELSE FindLoop(c.e, it, s, fn))

\* Seq.entries (lines 78-80)
SeqEntries(e, s) == SeqMap(e, s, "entries")

\* Seq.find (lines 112-120)
SeqFind(e, s, fn) ==
  LetIn(FindLoop(SeqEntries(e, s), Last(SeqEntries(e, s)), s, fn),
        LAMBDA r : Outcome(r.e, r.ret.item, r.err))

\* Seq.findIndex (lines 122-132)
SeqFindIndex(e, s, fn) ==
  LetIn(FindLoop(SeqEntries(e, s), Last(SeqEntries(e, s)), s, fn),
        LAMBDA r : Outcome(r.e, Num(r.ret.index), r.err))

\* Seq.every (lines 134-136)
SeqEvery(e, s, fn) ==
  LetIn(SeqFind(e, s, inverse(fn)), LAMBDA r : Outcome(r.e, Bool(r.ret = Undef), r.err))

\* Seq.some (lines 138-140)
SeqSome(e, s, fn) ==
  LetIn(SeqFind(e, s, fn), LAMBDA r : Outcome(r.e, Bool(r.ret # Undef), r.err))

\* for (const [index, item] of iterator) accumulator = callbackfn(...)
\* (lines 187-189)
RECURSIVE ReduceLoop(_, _, _, _, _)
ReduceLoop(e, it, s, fn, accumulator) ==
  LetIn(IterNext(e, s, it), LAMBDA r :
    IF r.err # "" THEN Outcome(r.e, Undef, r.err)
    ELSE IF r.step.done THEN Outcome(r.e, accumulator, "")
    ELSE IF ~Destructurable(r.step.value) THEN Outcome(r.e, Undef, ErrNotIterable)
    ELSE LET c == Call(r.e, fn, <<accumulator, r.step.value.a[2]>>,
                       r.step.value.a[1].n, s)
         IN IF c.err # "" THEN Outcome(c.e, Undef, c.err)
            ELSE ReduceLoop(c.e, it, s, fn, c.value))

\* Seq.reduce (lines 168-192); initialValue undefined stands for none given
SeqReduce(e, s, fn, initialValue) ==
  LET e1 == SeqEntries(e, s)
      iterator == Last(e1)
  IN IF initialValue = Undef
     THEN LetIn(IterNext(e1, s, iterator), LAMBDA r :
            IF r.err # "" THEN Outcome(r.e, Undef, r.err)
            ELSE IF ~Destructurable(r.step.value)
            THEN Outcome(r.e, Undef, ErrNotIterable)
            ELSE IF r.step.done THEN Outcome(r.e, Undef, ErrEmptyReduce)
            ELSE ReduceLoop(r.e, iterator, s, fn, r.step.value.a[2]))
     ELSE ReduceLoop(e1, iterator, s, fn, initialValue)

\* [...this] (lines 195, 199, 203, 207): the values this.next() produces
\* until it reports exhaustion
RECURSIVE Spread(_, _, _)
Spread(e, s, acc) ==
  LetIn(IterNext(e, s, s), LAMBDA r :
    IF r.err # "" THEN Outcome(r.e, acc, r.err)
    ELSE IF r.step.done THEN Outcome(r.e, acc, "")
    ELSE Spread(r.e, s, Append(acc, r.step.value)))

\* the default order of Array.prototype.sort on undefined and one-digit
\* numbers: by the decimal string, undefined last
SortsBefore(x, y) == x # Undef /\ (y = Undef \/ x.n < y.n)

RECURSIVE Insert(_, _)
Insert(x, sorted) ==
  IF sorted = <<>> THEN <<x>>
  ELSE IF SortsBefore(x, Head(sorted)) THEN <<x>> \o sorted
  ELSE <<Head(sorted)>> \o Insert(x, Tail(sorted))

RECURSIVE ArraySort(_)
ArraySort(xs) == IF xs = <<>> THEN <<>> ELSE Insert(Head(xs), ArraySort(Tail(xs)))

ArrayReverse(xs) == [i \in 1..Len(xs) |-> xs[Len(xs) + 1 - i]]

\* Seq.sort (lines 202-204) with no compareFunction
SeqSort(e, s) ==
  LetIn(Spread(e, s, <<>>), LAMBDA d : NewSeqOfArray(d.e, ArraySort(d.ret)))

\* reverse returning a Seq that wraps `this` instead of a reversed copy
SeqReverseView(e, s) == NewSeq(e, s)

\* Seq.reverse (lines 206-208)
SeqReverse(e, s) ==
  LetIn(Spread(e, s, <<>>), LAMBDA d : NewSeqOfArray(d.e, ArrayReverse(d.ret)))

(***************************************************************************)
(* State and actions.                                                      *)
(***************************************************************************)
Cur == Env(heap, calls, pulls)

\* the last operation that returned a value or threw: its receiver, callback
\* and arguments, what it returned or threw, the lengths of the two logs
\* when it was called (c0, p0) and when it returned (c1, p1), and the
\* elements the receiver's array had left when it was called
NoRes == [op |-> "", on |-> 0, fn |-> "", arg |-> Undef, items |-> <<>>,
          ret |-> Undef, err |-> "", c0 |-> 0, c1 |-> 0, p0 |-> 0, p1 |-> 0,
          rem |-> <<>>]

Seqs == {id \in 1..Len(heap) : heap[id].kind = "Seq"}

\* objects of the given closure kind
Closures(kind) == {id \in 1..Len(heap) : heap[id].kind = kind}

\* the Seq instances no other object pulls from: the ends of adapter chains
Referenced ==
  {heap[id].this : id \in 1..Len(heap)}
    \cup {heap[id].iterator : id \in 1..Len(heap)}
    \cup {heap[id].iterator2 : id \in 1..Len(heap)}
    \cup UNION {{heap[id].arr[i].n : i \in 1..Len(heap[id].arr)} : id \in Closures("concat")}
Tops == (Seqs \ Referenced) \ {Empty}

\* the elements the array under Seq s has left
RemOf(s) ==
  LET a == heap[heap[s].iterator]
  IN IF a.kind = "ArrayIterator" THEN SubSeq(a.arr, a.pos + 1, Len(a.arr)) ELSE <<>>

Install(e) ==
  /\ heap' = e.heap
  /\ calls' = e.calls
  /\ pulls' = e.pulls

Record(op, s, fn, arg, items, e, ret, err) ==
  res' = [op |-> op, on |-> s, fn |-> fn, arg |-> arg, items |-> items,
          ret |-> ret, err |-> err, c0 |-> Len(calls), c1 |-> Len(e.calls),
          p0 |-> Len(pulls), p1 |-> Len(e.pulls),
          rem |-> IF s = 0 THEN <<>> ELSE RemOf(s)]

\* the program starts with one Seq over an array of the caller's
InitOf ==
  \E xs \in Arrays :
    LET e == SeqOf(Env0, xs)
    IN /\ heap = e.heap
       /\ calls = e.calls
       /\ pulls = e.pulls
       /\ out = <<>>
       /\ res = NoRes

\* the Seq the program starts with
Base == Empty + 2

\* the consumer calls s.next()
Next_(s) ==
  /\ Len(out) < MaxPulls
  /\ \E r \in {IterNext(Cur, 0, s)} :
       /\ Install(r.e)
       /\ out' = Append(out, [on |-> s, step |-> r.step, err |-> r.err])
  /\ UNCHANGED res

\* the consumer calls s.map(fn)
Map(s, fn) ==
  /\ Len(heap) + 2 <= MaxObjs
  /\ Install(SeqMap(Cur, s, fn))
  /\ UNCHANGED <<out, res>>

\* the consumer calls s.filter(fn)
Filter(s, fn) ==
  /\ Len(heap) + 2 <= MaxObjs
  /\ Install(SeqFilter(Cur, s, fn))
  /\ UNCHANGED <<out, res>>

\* the consumer calls Seq.concat(...items)
Concat(items) ==
  /\ \E m \in {SeqConcat(Cur, items)} :
       /\ Install(m.e)
       /\ Record("Seq.concat", 0, "", Undef, items, m.e, SeqRef(m.seq), "")
  /\ UNCHANGED out

\* the consumer calls s.concat(...items)
ConcatThis(s, items) ==
  /\ \E m \in {SeqConcatThis(Cur, s, items)} :
       /\ Install(m.e)
       /\ Record("concat", s, "", Undef, items, m.e, SeqRef(m.seq), "")
  /\ UNCHANGED out

\* the consumer calls Seq.zip(s, ys) for a Seq s and an array ys
ZipWithArray(s, ys) ==
  /\ Len(heap) + 3 <= MaxObjs
  /\ LET e1 == Alloc(Cur, Obj("ArrayIterator", ys, 0, 0, 0, 0, ""))
     IN Install(SeqZip(e1, s, Last(e1)))
  /\ UNCHANGED <<out, res>>

\* the consumer calls Seq.init(count) or Seq.init(count, initializer)
Init_(count, initializer) ==
  /\ Len(heap) + 4 <= MaxObjs
  /\ Install(SeqInit(Cur, count, initializer))
  /\ UNCHANGED <<out, res>>

\* the consumer calls s.sort()
Sort(s) ==
  /\ Len(heap) + 2 <= MaxObjs
  /\ \E e \in {SeqSort(Cur, s)} :
       /\ Install(e)
       /\ Record("sort", s, "", Undef, <<>>, e, SeqRef(Last(e)), "")
  /\ UNCHANGED out

\* the consumer calls s.reverse()
Reverse(s) ==
  /\ Len(heap) + 2 <= MaxObjs
  /\ \E e \in {SeqReverse(Cur, s)} :
       /\ Install(e)
       /\ Record("reverse", s, "", Undef, <<>>, e, SeqRef(Last(e)), "")
  /\ UNCHANGED out

\* a terminal operation op on s with callback fn and argument arg has
\* ended with outcome r
Terminal(op, s, fn, arg, r) ==
  /\ Install(r.e)
  /\ Record(op, s, fn, arg, <<>>, r.e, r.ret, r.err)
  /\ UNCHANGED out

Reduce(s, fn, initialValue) ==
  /\ Len(heap) + 2 <= MaxObjs
  /\ \E r \in {SeqReduce(Cur, s, fn, initialValue)} :
       Terminal("reduce", s, fn, initialValue, r)

Find(s, fn) ==
  /\ Len(heap) + 2 <= MaxObjs
  /\ \E r \in {SeqFind(Cur, s, fn)} : Terminal("find", s, fn, Undef, r)

FindIndex(s, fn) ==
  /\ Len(heap) + 2 <= MaxObjs
  /\ \E r \in {SeqFindIndex(Cur, s, fn)} : Terminal("findIndex", s, fn, Undef, r)

Every(s, fn) ==
  /\ Len(heap) + 2 <= MaxObjs
  /\ \E r \in {SeqEvery(Cur, s, fn)} : Terminal("every", s, fn, Undef, r)

Some(s, fn) ==
  /\ Len(heap) + 2 <= MaxObjs
  /\ \E r \in {SeqSome(Cur, s, fn)} : Terminal("some", s, fn, Undef, r)

Predicates == {"isOne", "isZero", "isUndefined", "evenIndex", "oddIndex"}

\* no adapter has been derived yet
Underived == Len(heap) = Base

(***************************************************************************)
(* SpecAdapt: a Seq over an array, possibly partly consumed, from which one *)
(* map or one filter is derived; after that the consumer pulls only the    *)
(* derived Seq.                                                            *)
(***************************************************************************)
NextTop == \E s \in Tops : Next_(s)

MapOnce == Underived /\ Map(Base, "f")

FilterOnce == \E p \in Predicates : Underived /\ Filter(Base, p)

NextAdapt == NextTop \/ MapOnce \/ FilterOnce

SpecAdapt == InitOf /\ [][NextAdapt]_vars

(***************************************************************************)
(* SpecSticky: one Seq of each kind the engine builds is made from the Seq  *)
(* the program starts with; the consumer pulls any Seq, in any order,       *)
(* before and after exhaustion.                                            *)
(***************************************************************************)
NextAny == \E s \in Seqs \ {Empty} : Next_(s)

\* Seq.empty is pulled on its own
NextEmpty == Underived /\ (\A i \in 1..Len(out) : out[i].on = Empty) /\ Next_(Empty)

FilterIsOne == Underived /\ Filter(Base, "isOne")

ConcatOnce ==
  \E items \in {<<>>, <<Undef, SeqRef(Empty)>>} :
    Underived /\ ConcatThis(Base, items)

ConcatNone == Underived /\ res.op = "" /\ Concat(<<>>)

ZipOnce ==
  \E ys \in {<<Num(1)>>, [i \in 1..MaxLen |-> Undef]} :
    Underived /\ ZipWithArray(Base, ys)

InitOnce == \E g \in {"", "f"} : Underived /\ Init_(2, g)

SortOnce == Underived /\ Sort(Base)

ReverseOnce == Underived /\ Reverse(Base)

NextSticky ==
  \/ NextAny
  \/ NextEmpty
  \/ MapOnce
  \/ FilterIsOne
  \/ ConcatOnce
  \/ ConcatNone
  \/ ZipOnce
  \/ InitOnce
  \/ SortOnce
  \/ ReverseOnce

SpecSticky == InitOf /\ [][NextSticky]_vars

(***************************************************************************)
(* SpecShare: adapters are derived from the starting Seq and from each      *)
(* other, and the consumer pulls every one of them in any interleaving.    *)
(***************************************************************************)
MapAny == \E s \in Seqs \ {Empty} : Map(s, "f")

FilterAny == \E s \in Seqs \ {Empty} : Filter(s, "isOne")

ConcatAny == Underived /\ ConcatThis(Base, <<Num(1)>>)

NextShare == NextAny \/ MapAny \/ FilterAny \/ ConcatAny

SpecShare == InitOf /\ [][NextShare]_vars

(***************************************************************************)
(* SpecReduce: the starting Seq, possibly partly consumed, is reduced with  *)
(* and without an initial value; a second reduce finds it exhausted.        *)
(***************************************************************************)
NextBase == Next_(Base)

ReduceBase == \E initialValue \in {Undef, Num(1)} : Reduce(Base, "g", initialValue)

NextReduce == NextBase \/ ReduceBase

SpecReduce == InitOf /\ [][NextReduce]_vars

(***************************************************************************)
(* SpecQuery: find, findIndex, every and some on the starting Seq, possibly *)
(* partly consumed.                                                        *)
(***************************************************************************)
FindBase == \E p \in Predicates : Find(Base, p)

FindIndexBase == \E p \in Predicates : FindIndex(Base, p)

EveryBase == \E p \in Predicates : Every(Base, p)

SomeBase == \E p \in Predicates : Some(Base, p)

NextQuery == NextBase \/ FindBase \/ FindIndexBase \/ EveryBase \/ SomeBase

SpecQuery == InitOf /\ [][NextQuery]_vars

(***************************************************************************)
(* SpecZip: Seq.zip of two arrays, drained by the consumer.                 *)
(***************************************************************************)
InitZip ==
  \E xs \in Arrays, ys \in Arrays :
    LET e == SeqZipArrays(Env0, xs, ys)
    IN /\ heap = e.heap
       /\ calls = e.calls
       /\ pulls = e.pulls
       /\ out = <<>>
       /\ res = NoRes

SpecZip == InitZip /\ [][NextTop]_vars

(***************************************************************************)
(* SpecConcat: two Seqs over arrays, possibly partly consumed; one concat,  *)
(* static or on the instance, of items that are those Seqs and bare values; *)
(* the consumer then pulls the Seq concat returned.                        *)
(***************************************************************************)
InitTwo ==
  \E xs \in Arrays, ys \in {<<>>, <<Num(0)>>, <<Undef, Num(1)>>} :
    LET e == SeqOf(SeqOf(Env0, xs), ys)
    IN /\ heap = e.heap
       /\ calls = e.calls
       /\ pulls = e.pulls
       /\ out = <<>>
       /\ res = NoRes

\* the second Seq the program starts with
Base2 == Base + 2

NextBefore == \E s \in {Base, Base2} : res.op = "" /\ Next_(s)

NextResult == res.op \in {"concat", "Seq.concat"} /\ Next_(res.ret.n)

ConcatStatic ==
  \E items \in {<<>>, <<Num(0)>>, <<Undef, SeqRef(Base)>>,
                <<SeqRef(Base), Num(1), SeqRef(Base2)>>,
                <<SeqRef(Base), SeqRef(Base)>>} :
    res.op = "" /\ Concat(items)

ConcatInstance ==
  \E items \in {<<>>, <<Num(1), SeqRef(Base2)>>, <<SeqRef(Base2), Undef>>} :
    res.op = "" /\ ConcatThis(Base, items)

NextConcat == NextBefore \/ NextResult \/ ConcatStatic \/ ConcatInstance

SpecConcat == InitTwo /\ [][NextConcat]_vars

(***************************************************************************)
(* SpecInfinite: Seq.initInfinite(), possibly partly consumed, searched by  *)
(* findIndex for a number it has not yet produced.                         *)
(***************************************************************************)
MaxK == 4

InitInf ==
  LET e == SeqInitInfinite(Env0, "")
  IN /\ heap = e.heap
     /\ calls = e.calls
     /\ pulls = e.pulls
     /\ out = <<>>
     /\ res = NoRes

FindIndexInf ==
  \E k \in 0..MaxK :
    /\ k >= heap[heap[Base].iterator].pos
    /\ FindIndex(Base, IsName(k))

NextInfinite == NextBase \/ FindIndexInf

SpecInfinite == InitInf /\ [][NextInfinite]_vars

(***************************************************************************)
(* Observations shared by the claims.                                      *)
(***************************************************************************)
\* the steps the consumer received from s.next(), in order
OutOn(s) == SelectSeq(out, LAMBDA x : x.on = s)

\* the invocations of callback fn made with `this` = s, in order
CallsOf(fn, s) == SelectSeq(calls, LAMBDA c : c.fn = fn /\ c.this = s)

\* how many elements the consumer took from s by calling s.next() itself
TakenFrom(s) == Len(SelectSeq(out, LAMBDA x : x.on = s /\ ~x.step.done))

\* the Seq instance wrapping iterator object it
SeqOver(it) == CHOOSE d \in Seqs : heap[d].iterator = it

\* the elements Seq s (over an array) had left when an adapter was derived
\* from it: those the consumer had not taken from s directly
Remaining(s) ==
  LET a == heap[heap[s].iterator]
  IN SubSeq(a.arr, TakenFrom(s) + 1, Len(a.arr))

\* how many of Remaining(s) have been consumed
Consumed(s) == heap[heap[s].iterator].pos - TakenFrom(s)

Min(a, b) == IF a < b THEN a ELSE b

\* the elements xs[i] for which predicate p holds at index i - 1, in order
RECURSIVE SurvivorsFrom(_, _, _)
SurvivorsFrom(xs, p, i) ==
  IF i > Len(xs) THEN <<>>
  ELSE IF Truthy(CallbackValue(p, <<xs[i]>>, i - 1))
       THEN <<xs[i]>> \o SurvivorsFrom(xs, p, i + 1)
       ELSE SurvivorsFrom(xs, p, i + 1)

Survivors(xs, p) == SurvivorsFrom(xs, p, 1)

\* the values of the steps that produced an element
Produced(steps) ==
  LET live == SelectSeq(steps, LAMBDA x : ~x.step.done)
  IN [i \in 1..Len(live) |-> live[i].step.value]

\* in steps, every step after an exhausted one is exhausted
DoneIsLast(steps) ==
  \A i, j \in 1..Len(steps) : (i < j /\ steps[i].step.done) => steps[j].step.done

(***************************************************************************)
(* C1: draining s.map(f) yields exactly f(x_i, i, s) for each source       *)
(* element x_i (undefined and falsy elements included) in source order,    *)
(* the mapped Seq reports exhaustion exactly when the source does, and f   *)
(* is invoked exactly once per source element.                             *)
(***************************************************************************)
C1_MapYieldsFOfEachElement ==
  \A m \in Closures("map") :
    LET s == heap[m].this
        ys == OutOn(SeqOver(m))
        rem == Remaining(s)
        n == Min(Len(ys), Len(rem))
    IN /\ \A i \in 1..Len(ys) :
            IF i <= Len(rem)
            THEN ys[i].step = Step(FALSE, App("f", <<rem[i]>>, i - 1))
            ELSE ys[i].step.done
       /\ CallsOf("f", s) =
            [i \in 1..n |-> [fn |-> "f", args |-> <<rem[i]>>, index |-> i - 1, this |-> s]]

(***************************************************************************)
(* C2: draining s.filter(p) yields exactly the source elements for which p *)
(* holds, in their original order; p is called once for every examined     *)
(* element with the element's position among all examined elements         *)
(* (discarded ones counted), and exhaustion is reported only once every     *)
(* source element has been examined.                                       *)
(***************************************************************************)
C2_FilterYieldsSurvivors ==
  \A c \in Closures("filter") :
    LET s == heap[c].this
        p == heap[c].fn
        ys == OutOn(SeqOver(c))
        rem == Remaining(s)
        seen == SubSeq(rem, 1, Consumed(s))
    IN /\ Produced(ys) = Survivors(seen, p)
       /\ CallsOf(p, s) =
            [i \in 1..Len(seen) |->
               [fn |-> p, args |-> <<seen[i]>>, index |-> i - 1, this |-> s]]
       /\ DoneIsLast(ys)
       /\ (\E i \in 1..Len(ys) : ys[i].step.done) => seen = rem

\* a filter by index has been drained: an element was discarded at index 0
\* and a later one, undefined, survived at index 1
C2_Witness ==
  \E c \in Closures("filter") :
    LET ys == OutOn(SeqOver(c))
    IN /\ heap[c].fn = "oddIndex"
       /\ Len(ys) >= 2
       /\ ys[1].step = Step(FALSE, Undef)
       /\ ys[Len(ys)].step.done
       /\ Len(Remaining(heap[c].this)) = 2

(***************************************************************************)
(* C3: exhaustion is sticky.  For every Seq the engine builds (a direct     *)
(* wrap, map, filter, concat, zip, init, sort, reverse, Seq.empty), once a  *)
(* pull on it has reported exhaustion every later pull on it reports        *)
(* exhaustion too, whatever pulls on other Seqs come in between.            *)
(***************************************************************************)
C3_ExhaustionSticky == \A s \in Seqs : DoneIsLast(OutOn(s))

\* a concat of items has produced an element and then reported exhaustion on
\* two pulls in a row
C3_Witness ==
  \E c \in Closures("concat") :
    LET ys == OutOn(SeqOver(c))
    IN /\ Len(heap[c].arr) = 3
       /\ Len(ys) >= 3
       /\ ~ys[1].step.done
       /\ ys[Len(ys) - 1].step.done
       /\ ys[Len(ys)].step.done

(***************************************************************************)
(* C4 as claimed: each Seq exclusively owns its upstream cursor.  No        *)
(* iterator object is pulled by two different Seq instances, and pulls on   *)
(* two different Seqs never advance the same underlying cursor.             *)
(***************************************************************************)
\* the Seq instance on whose behalf object `by` issues its pulls
Owner(by) == IF heap[by].kind = "Seq" THEN by ELSE SeqOver(by)

\* the Seq the consumer pulled when pull i was issued: pulls are logged on
\* return, so it is the receiver of the next pull the consumer itself issued
Root(i) ==
  pulls[CHOOSE j \in i..Len(pulls) :
          pulls[j].by = 0 /\ \A k \in i..(j - 1) : pulls[k].by # 0].on

Cursors == {id \in 1..Len(heap) : heap[id].kind # "Seq"}

C4_CursorsExclusive ==
  /\ \A c \in Cursors :
       Cardinality({Owner(pulls[i].by) : i \in {j \in 1..Len(pulls) : pulls[j].on = c}}) <= 1
  /\ \A i, j \in 1..Len(pulls) :
       (pulls[i].on = pulls[j].on /\ pulls[i].on \in Cursors) => Root(i) = Root(j)

(***************************************************************************)
(* C4 as amended: a Seq keeps the cursor it obtained at construction, but   *)
(* not exclusively.  An adapter derived from s by map or filter pulls s's   *)
(* own cursor, and concat pulls its item Seqs, so pulls on s and on the     *)
(* Seqs derived from s advance one shared cursor; every element of the      *)
(* source array is delivered to exactly one pull, in source order.          *)
(***************************************************************************)
PullsOn(c) == SelectSeq(pulls, LAMBDA x : x.on = c)

C4_DerivedShareSourceCursor ==
  /\ \A i \in 1..Len(pulls) :
       LET by == pulls[i].by
       IN /\ (by # 0 /\ heap[by].kind \in {"map", "filter"})
               => pulls[i].on = heap[heap[by].this].iterator
          /\ (by # 0 /\ heap[by].kind = "concat") => heap[pulls[i].on].kind = "Seq"
          /\ (by # 0 /\ heap[by].kind = "Seq") => pulls[i].on = heap[by].iterator
  /\ \A a \in Closures("ArrayIterator") :
       Produced(PullsOn(a)) = SubSeq(heap[a].arr, 1, heap[a].pos)

\* the array iterator under the starting Seq has delivered one element to a
\* pull on that Seq and the next to a pull on a Seq derived from it by map
C4_Witness ==
  \E m \in Closures("map") :
    LET s == heap[m].this
        a == heap[s].iterator
    IN /\ heap[a].kind = "ArrayIterator"
       /\ Len(heap[a].arr) >= 2
       /\ Len(OutOn(s)) >= 1
       /\ Len(OutOn(SeqOver(m))) >= 1
       /\ OutOn(s)[1].step = Step(FALSE, heap[a].arr[1])
       /\ OutOn(SeqOver(m))[1].step = Step(FALSE, App("f", <<heap[a].arr[2]>>, 0))
       /\ out[1].on = s

(***************************************************************************)
(* Observations of the last terminal operation.                            *)
(***************************************************************************)
\* the invocations of the operation's callback made while it ran
OpCalls ==
  SelectSeq(SubSeq(calls, res.c0 + 1, res.c1), LAMBDA c : c.fn = res.fn)

\* the pulls the operation caused on object it
OpPullsOn(it) ==
  SelectSeq(SubSeq(pulls, res.p0 + 1, res.p1), LAMBDA x : x.on = it)

\* callbackfn folded over xs from the left, the first element at index i
RECURSIVE FoldL(_, _, _, _)
FoldL(fn, acc, xs, i) ==
  IF xs = <<>> THEN acc
  ELSE FoldL(fn, App(fn, <<acc, Head(xs)>>, i), Tail(xs), i + 1)

\* predicate fn holds of xs[i] at traversal index i - 1
Holds(fn, xs, i) == Truthy(UserValue(fn, <<xs[i]>>, i - 1))

(***************************************************************************)
(* C5: reduce with no initial value on an exhausted Seq fails with the      *)
(* EmptyReduction error of line 180 and never invokes the fold function;    *)
(* with exactly one element left it returns that element and invokes the    *)
(* fold function zero times.                                               *)
(***************************************************************************)
C5_ReduceNoInitialValue ==
  (res.op = "reduce" /\ res.arg = Undef) =>
    /\ res.rem = <<>> => (res.err = ErrEmptyReduce /\ OpCalls = <<>>)
    /\ Len(res.rem) = 1 => (res.err = "" /\ res.ret = res.rem[1] /\ OpCalls = <<>>)

(***************************************************************************)
(* C6: reduce folds left to right in production order.  With an initial     *)
(* value v it returns f(...f(f(v, x_0, 0), x_1, 1)..., x_n-1, n-1) over     *)
(* every remaining element; without one the first element is the seed and    *)
(* folding starts at the second element with index 1.                       *)
(***************************************************************************)
C6_ReduceFoldsLeft ==
  res.op = "reduce" =>
    IF res.arg # Undef
    THEN res.err = "" /\ res.ret = FoldL(res.fn, res.arg, res.rem, 0)
    ELSE res.rem # <<>> =>
           (res.err = "" /\ res.ret = FoldL(res.fn, res.rem[1], Tail(res.rem), 1))

(***************************************************************************)
(* C7: draining Seq.zip(a, b) of two arrays yields exactly the pairs        *)
(* (a_i, b_i) for i below min(|a|, |b|), in order, and the zipped Seq        *)
(* reports exhaustion on exactly the pulls at which a source does.          *)
(***************************************************************************)
\* the results object `by` received from its pulls on object it
PullsBy(by, it) == SelectSeq(pulls, LAMBDA x : x.by = by /\ x.on = it)

C7_ZipPairsToShorter ==
  \A z \in Closures("zip") :
    LET a == heap[heap[z].iterator].arr
        b == heap[heap[z].iterator2].arr
        ys == OutOn(SeqOver(z))
        item1 == PullsBy(z, heap[z].iterator)
        item2 == PullsBy(z, heap[z].iterator2)
    IN \A i \in 1..Len(ys) :
         /\ IF i <= Min(Len(a), Len(b))
            THEN ys[i].step = Step(FALSE, Pair(a[i], b[i]))
            ELSE ys[i].step.done
         /\ ys[i].step.done = (item1[i].step.done \/ item2[i].step.done)

\* zip of a two-element and a one-element array has been drained: one pair,
\* then exhaustion
C7_Witness ==
  \E z \in Closures("zip") :
    LET ys == OutOn(SeqOver(z))
    IN /\ Len(heap[heap[z].iterator].arr) = 2
       /\ Len(heap[heap[z].iterator2].arr) = 1
       /\ Len(ys) = 2
       /\ ~ys[1].step.done
       /\ ys[2].step.done

(***************************************************************************)
(* C8: draining Seq.concat(item_1, ..., item_n) yields the elements of      *)
(* item_1, then item_2, ..., each in its own order: a Seq contributes the   *)
(* elements it has left when concat reaches it, a bare value itself once.   *)
(* With no items the result is Seq.empty.  s.concat(items) drains to what   *)
(* Seq.concat(s, items) drains to.                                          *)
(***************************************************************************)
\* what items contribute, the Seqs in `used` having been drained already
RECURSIVE Contributions(_, _)
Contributions(items, used) ==
  IF items = <<>> THEN <<>>
  ELSE LET item == Head(items)
       IN IF item.t = "Seq"
          THEN (IF item.n \in used THEN <<>> ELSE Remaining(item.n))
                 \o Contributions(Tail(items), used \cup {item.n})
          ELSE <<item>> \o Contributions(Tail(items), used)

\* the items of the static call the last concat stands for
ConcatItems == IF res.op = "concat" THEN <<SeqRef(res.on)>> \o res.items ELSE res.items

C8_ConcatInItemOrder ==
  res.op \in {"concat", "Seq.concat"} =>
    LET expected == Contributions(ConcatItems, {})
        ys == OutOn(res.ret.n)
    IN /\ (ConcatItems = <<>>) = (res.ret = SeqRef(Empty))
       /\ \A i \in 1..Len(ys) :
            IF i <= Len(expected)
            THEN ys[i].step = Step(FALSE, expected[i])
            ELSE ys[i].step.done

\* s.concat(1, t) has been drained: an element of s, the bare 1, then
\* exhaustion, t being empty
C8_Witness ==
  /\ res.op = "concat"
  /\ res.items = <<Num(1), SeqRef(Base2)>>
  /\ Len(heap[heap[Base].iterator].arr) = 1
  /\ Len(OutOn(res.ret.n)) = 3
  /\ OutOn(res.ret.n)[1].step = Step(FALSE, heap[heap[Base].iterator].arr[1])
  /\ OutOn(res.ret.n)[2].step = Step(FALSE, Num(1))
  /\ OutOn(res.ret.n)[3].step.done

(***************************************************************************)
(* C9: on Seq.initInfinite(), findIndex of a predicate first true at        *)
(* position k terminates, returns k and issues exactly k + 1 pulls on the   *)
(* infinite source, whose counter is k + 1 afterwards; the infinite source  *)
(* never reports exhaustion.  (Stated for a source from which j elements    *)
(* were pulled before: the position of the number k is then k - j.)         *)
(***************************************************************************)
\* the number the predicate IsName(k) holds of
NumberOf(fn) == CHOOSE k \in 0..(Len(IsNames) - 1) : IsName(k) = fn

C9_FindIndexOnInfinite ==
  \A inf \in Closures("initInfinite") :
    /\ \A i \in 1..Len(pulls) : pulls[i].on = inf => ~pulls[i].step.done
    /\ res.op = "findIndex" =>
         LET j == Len(SelectSeq(SubSeq(pulls, 1, res.p0), LAMBDA x : x.on = inf))
             k == NumberOf(res.fn) - j
         IN /\ res.err = ""
            /\ res.ret = Num(k)
            /\ Len(OpPullsOn(inf)) = k + 1
            /\ Len(pulls) = res.p1 => heap[inf].pos = j + k + 1

\* findIndex on a fresh Seq.initInfinite() has found the number 2
C9_Witness ==
  /\ Closures("initInfinite") # {}
  /\ res.op = "findIndex"
  /\ res.p0 = 0
  /\ res.fn = IsName(2)
  /\ res.ret = Num(2)

(***************************************************************************)
(* C10: every(p) returns true exactly when no produced element fails p and  *)
(* some(p) returns true exactly when a produced element satisfies p,        *)
(* whatever the value of the deciding element; on an empty Seq every(p) is  *)
(* true and some(p) is false.                                              *)
(***************************************************************************)
C10_EveryAndSome ==
  /\ res.op = "every" =>
       /\ res.err = ""
       /\ res.ret = Bool(\A i \in 1..Len(res.rem) : Holds(res.fn, res.rem, i))
  /\ res.op = "some" =>
       /\ res.err = ""
       /\ res.ret = Bool(\E i \in 1..Len(res.rem) : Holds(res.fn, res.rem, i))

(***************************************************************************)
(* Seq.includes and the not-a-number value.                                *)
(***************************************************************************)
\* the number NaN
NaN == [t |-> "NaN", n |-> 0, a |-> <<>>]

\* typeof v === 'number'
TypeofNumber(v) == v.t \in {"number", "NaN"}

\* isNaN(v) for a v that is undefined, a number or NaN
IsNaN(v) == v.t \in {"NaN", "undefined"}

\* x === y: NaN is not strictly equal to anything
StrictEquals(x, y) == x = y /\ x.t # "NaN"

\* sameValueZero (lines 26-28)
sameValueZero(x, y) ==
  StrictEquals(x, y) \/ (TypeofNumber(x) /\ TypeofNumber(y) /\ IsNaN(x) /\ IsNaN(y))

\* the loop of includes (lines 143-150); ret is whether it returned true
RECURSIVE IncludesLoop(_, _, _, _, _)
IncludesLoop(e, it, s, searchElement, fromIndex) ==
  LetIn(IterNext(e, s, it), LAMBDA r :
    IF r.err # "" THEN Outcome(r.e, Undef, r.err)
    ELSE IF r.step.done THEN Outcome(r.e, Bool(FALSE), "")
    ELSE IF ~Destructurable(r.step.value) THEN Outcome(r.e, Undef, ErrNotIterable)
    ELSE LET index == r.step.value.a[1].n
             item == r.step.value.a[2]
         IN IF (fromIndex = Undef \/ index >= fromIndex.n)
                 /\ sameValueZero(item, searchElement)
            THEN Outcome(r.e, Bool(TRUE), "")
            ELSE IncludesLoop(r.e, it, s, searchElement, fromIndex))

\* Seq.includes (lines 142-153); fromIndex undefined stands for none given
SeqIncludes(e, s, searchElement, fromIndex) ==
  LetIn(SeqEntries(e, s), LAMBDA e1 :
    IncludesLoop(e1, Last(e1), s, searchElement, fromIndex))

\* the consumer calls s.includes(searchElement, fromIndex)
Includes(s, searchElement, fromIndex) ==
  /\ Len(heap) + 2 <= MaxObjs
  /\ \E r \in {SeqIncludes(Cur, s, searchElement, fromIndex)} :
       /\ Install(r.e)
       /\ Record("includes", s, "", searchElement, <<fromIndex>>, r.e, r.ret, r.err)
  /\ UNCHANGED out

(***************************************************************************)
(* SpecIncludes: a Seq over an array that may hold NaN, possibly partly     *)
(* consumed, searched by includes with and without a fromIndex.             *)
(***************************************************************************)
InitIncludes ==
  \E xs \in Arrays \cup {<<NaN>>, <<Num(0), NaN>>, <<NaN, Num(1)>>} :
    LET e == SeqOf(Env0, xs)
    IN /\ heap = e.heap
       /\ calls = e.calls
       /\ pulls = e.pulls
       /\ out = <<>>
       /\ res = NoRes

IncludesBase ==
  \E searchElement \in {Undef, Num(0), Num(1), NaN}, fromIndex \in {Undef, Num(0), Num(1)} :
    Includes(Base, searchElement, fromIndex)

NextIncludes == NextBase \/ IncludesBase

SpecIncludes == InitIncludes /\ [][NextIncludes]_vars

(***************************************************************************)
(* C11: includes(x, fromIndex) returns true exactly when some remaining     *)
(* element at traversal index i >= fromIndex (any index when fromIndex is   *)
(* omitted) is identical to x, NaN counting as identical to itself, and     *)
(* false when the Seq exhausts without one.                                *)
(***************************************************************************)
C11_IncludesValueIdentical ==
  res.op = "includes" =>
    LET fromIndex == res.items[1]
    IN /\ res.err = ""
       /\ res.ret = Bool(\E i \in 1..Len(res.rem) :
                           /\ fromIndex = Undef \/ i - 1 >= fromIndex.n
                           /\ res.rem[i] = res.arg)

(***************************************************************************)
(* SpecLazy: Seqs of every kind are constructed from the Seqs the consumer  *)
(* holds, one on top of another; the consumer pulls any of them and runs    *)
(* findIndex on the starting Seq.                                          *)
(***************************************************************************)
\* the consumer calls Seq.from(s): s[Symbol.iterator]() is s itself (line 42)
From(s) ==
  /\ Len(heap) + 1 <= MaxObjs
  /\ Install(NewSeq(Cur, s))
  /\ UNCHANGED <<out, res>>

\* the consumer calls Seq.initInfinite() or Seq.initInfinite(initializer)
InitInfinite_(initializer) ==
  /\ Len(heap) + 4 <= MaxObjs
  /\ Install(SeqInitInfinite(Cur, initializer))
  /\ UNCHANGED <<out, res>>

\* the consumer calls Seq.concat(s, ...items)
ConcatOf(s, items) ==
  /\ Len(heap) + 2 + Len(items) * 2 <= MaxObjs
  /\ Concat(<<SeqRef(s)>> \o items)

InitLazy ==
  \E xs \in {<<>>, <<Num(1)>>, <<Undef, Num(1)>>, <<Num(0), Num(1)>>} :
    LET e == SeqOf(Env0, xs)
    IN /\ heap = e.heap
       /\ calls = e.calls
       /\ pulls = e.pulls
       /\ out = <<>>
       /\ res = NoRes

FromTop == \E s \in Tops : From(s)

MapTop == \E s \in Tops : Map(s, "f")

\* a filter is not combined with an infinite Seq: a pull of it need not return
FilterTop == \E s \in Tops : Closures("initInfinite") = {} /\ Filter(s, "isOne")

ConcatTop == \E s \in Tops, items \in {<<>>, <<Num(1)>>} : ConcatOf(s, items)

ConcatBare == Len(heap) + 4 <= MaxObjs /\ Concat(<<Num(0)>>)

ZipTop == \E s \in Tops : ZipWithArray(s, <<Num(0), Num(1)>>)

InitAny == \E g \in {"", "f"} : Init_(2, g)

InitInfiniteAny == \E g \in {"", "f"} : Closures("filter") = {} /\ InitInfinite_(g)

FindIndexIsOne == FindIndex(Base, "isOne")

NextLazy ==
  \/ NextTop
  \/ FromTop
  \/ MapTop
  \/ FilterTop
  \/ ConcatTop
  \/ ConcatBare
  \/ ZipTop
  \/ InitAny
  \/ InitInfiniteAny
  \/ FindIndexIsOne

SpecLazy == InitLazy /\ [][NextLazy]_vars

(***************************************************************************)
(* C12: construction is lazy.  A step that constructs a Seq (by wrapping,   *)
(* map, filter, concat, zip, init or initInfinite) issues no pull on any    *)
(* object and invokes no callback; the pull log and the call log grow only  *)
(* in a step in which the consumer pulls a Seq or runs a terminal           *)
(* operation.                                                              *)
(***************************************************************************)
\* the step is the consumer's pull of a Seq
ConsumerPulls == Len(out') = Len(out) + 1

\* the step is a terminal operation of the consumer
ConsumerRunsTerminal ==
  res' # res /\ res'.op \in {"find", "findIndex", "every", "some", "includes", "reduce", "forEach"}

C12_ConstructionIsLazy ==
  [][(ConsumerPulls \/ ConsumerRunsTerminal) \/ (pulls' = pulls /\ calls' = calls)]_vars

\* a concat over a map has been constructed, with a Seq made for the bare
\* item, and nothing has been pulled or invoked
C12_Witness ==
  /\ Closures("concat") # {}
  /\ Closures("map") # {}
  /\ pulls = <<>>
  /\ calls = <<>>
  /\ out = <<>>

(***************************************************************************)
(* SpecSort: the starting Seq, possibly partly consumed, is sorted or       *)
(* reversed once; the consumer pulls the original and the result in any     *)
(* order.                                                                  *)
(***************************************************************************)
NextSort == NextAny \/ SortOnce \/ ReverseOnce

SpecSort == InitOf /\ [][NextSort]_vars

(***************************************************************************)
(* C13: sort and reverse consume the original Seq completely when called:   *)
(* every later pull on the original reports exhaustion.  The Seq returned   *)
(* produces all the elements the original had left, in sorted respectively  *)
(* reversed order, whatever is pulled from the original afterwards.         *)
(***************************************************************************)
\* how often v occurs in xs
Count(xs, v) == Cardinality({i \in 1..Len(xs) : xs[i] = v})

\* ys holds the elements of xs, each as often
IsPermutation(xs, ys) ==
  /\ Len(xs) = Len(ys)
  /\ \A i \in 1..Len(xs) : Count(xs, xs[i]) = Count(ys, xs[i])

\* numbers ascending, undefined after every number
InOrder(x, y) == y = Undef \/ (x # Undef /\ x.n <= y.n)

IsSorted(xs) == \A i, j \in 1..Len(xs) : i < j => InOrder(xs[i], xs[j])

IsReverseOf(xs, ys) ==
  /\ Len(xs) = Len(ys)
  /\ \A i \in 1..Len(xs) : xs[i] = ys[Len(ys) + 1 - i]

\* the pulls issued after the last operation returned
PullsAfterOp == SubSeq(pulls, res.p1 + 1, Len(pulls))

C13_SortReverseConsumeAndCopy ==
  res.op \in {"sort", "reverse"} =>
    LET d == res.ret.n
        ys == OutOn(d)
        contents == heap[heap[d].iterator].arr
    IN /\ heap[heap[res.on].iterator].pos = Len(heap[heap[res.on].iterator].arr)
       /\ \A i \in 1..Len(PullsAfterOp) :
            PullsAfterOp[i].on = res.on => PullsAfterOp[i].step.done
       /\ IF res.op = "sort"
          THEN IsPermutation(contents, res.rem) /\ IsSorted(contents)
          ELSE IsReverseOf(contents, res.rem)
       /\ \A i \in 1..Len(ys) :
            IF i <= Len(contents)
            THEN ys[i].step = Step(FALSE, contents[i])
            ELSE ys[i].step.done

\* a Seq with 1, 0 left was sorted; the original was pulled afterwards and
\* the result drained
C13_Witness ==
  /\ res.op = "sort"
  /\ res.rem = <<Num(1), Num(0)>>
  /\ \E i \in 1..Len(PullsAfterOp) : PullsAfterOp[i].on = res.on
  /\ Len(OutOn(res.ret.n)) = 3

(***************************************************************************)
(* SpecInit: Seq.init(count) and Seq.init(count, initializer) for counts    *)
(* from 0 to MaxCount, drained by the consumer; several may be alive.       *)
(***************************************************************************)
MaxCount == 3

InitNone ==
  /\ heap = Env0.heap
  /\ calls = <<>>
  /\ pulls = <<>>
  /\ out = <<>>
  /\ res = NoRes

InitCount ==
  \E count \in 0..MaxCount, initializer \in {"", "f", "g"} :
    /\ Len(heap) + (IF initializer = "" THEN 2 ELSE 4) <= MaxObjs
    /\ Install(SeqInit(Cur, count, initializer))
    /\ UNCHANGED <<out, res>>

NextInit == NextTop \/ InitCount

SpecInit == InitNone /\ [][NextInit]_vars

(***************************************************************************)
(* C14: draining Seq.init(count) yields 0, 1, ..., count - 1 in order and   *)
(* then exhaustion; draining Seq.init(count, g) yields g(0, 0), g(1, 1),    *)
(* ..., g(count - 1, count - 1): g is invoked once for every integer, 0     *)
(* included, with the integer as value and as index.                       *)
(***************************************************************************)
\* the Seq over Array(count).keys() under the Seq d that init returned
KeysSeq(d) ==
  IF heap[heap[d].iterator].kind = "map" THEN heap[heap[d].iterator].this ELSE d

\* the initializer of the Seq d that init returned, "" if none
InitializerOf(d) ==
  IF heap[heap[d].iterator].kind = "map" THEN heap[heap[d].iterator].fn ELSE ""

C14_InitYieldsIntegers ==
  \A d \in Tops :
    LET count == Len(heap[heap[KeysSeq(d)].iterator].arr)
        g == InitializerOf(d)
        ys == OutOn(d)
        made == SelectSeq(calls, LAMBDA c : c.this = KeysSeq(d))
    IN /\ \A i \in 1..Len(ys) :
            IF i <= count
            THEN ys[i].step =
                   Step(FALSE, IF g = "" THEN Num(i - 1) ELSE App(g, <<Num(i - 1)>>, i - 1))
            ELSE ys[i].step.done
       /\ Len(made) = (IF g = "" THEN 0 ELSE Min(Len(ys), count))
       /\ \A i \in 1..Len(made) :
            made[i] = [fn |-> g, args |-> <<Num(i - 1)>>, index |-> i - 1,
                       this |-> KeysSeq(d)]

\* Seq.init(2, g) has been drained: g(0, 0), g(1, 1), exhaustion
C14_Witness ==
  \E d \in Tops :
    /\ InitializerOf(d) = "g"
    /\ Len(heap[heap[KeysSeq(d)].iterator].arr) = 2
    /\ Len(OutOn(d)) = 3
    /\ OutOn(d)[1].step = Step(FALSE, App("g", <<Num(0)>>, 0))
    /\ OutOn(d)[3].step.done

(***************************************************************************)
(* C15: find(p) returns the first remaining element satisfying p, or        *)
(* undefined if the Seq exhausts without one; findIndex(p) returns the      *)
(* traversal index of that same element, or -1 if there is none.           *)
(***************************************************************************)
\* the positions of the remaining elements that satisfy the predicate
Matches == {i \in 1..Len(res.rem) : Holds(res.fn, res.rem, i)}

\* the position of the first of them
FirstMatch == CHOOSE i \in Matches : \A j \in Matches : i <= j

C15_FindFirstMatch ==
  /\ res.op = "find" =>
       /\ res.err = ""
       /\ res.ret = (IF Matches = {} THEN Undef ELSE res.rem[FirstMatch])
  /\ res.op = "findIndex" =>
       /\ res.err = ""
       /\ res.ret = (IF Matches = {} THEN Num(-1) ELSE Num(FirstMatch - 1))

(***************************************************************************)
(* SpecShort: find, findIndex, every, some and includes on the starting     *)
(* Seq, which may hold NaN and be partly consumed; the consumer pulls the   *)
(* Seq before and after each of them.                                      *)
(***************************************************************************)
NextShort ==
  \/ NextBase
  \/ FindBase
  \/ FindIndexBase
  \/ EveryBase
  \/ SomeBase
  \/ IncludesBase

SpecShort == InitIncludes /\ [][NextShort]_vars

(***************************************************************************)
(* C16: find, findIndex, some, every and includes pull from the Seq exactly *)
(* up to and including the first decisive element (the first match; for     *)
(* every, the first element failing the predicate) and no further: the      *)
(* elements after it are produced, in order, by later pulls on the Seq.     *)
(***************************************************************************)
\* the positions of the remaining elements that decide the last operation
Decisive ==
  {i \in 1..Len(res.rem) :
     CASE res.op = "every" -> ~Holds(res.fn, res.rem, i)
       [] res.op = "includes" ->
            /\ res.items[1] = Undef \/ i - 1 >= res.items[1].n
            /\ res.rem[i] = res.arg
       [] OTHER -> Holds(res.fn, res.rem, i)}

\* how many of the remaining elements the operation is to consume;
\* short of a decisive element, all of them
DecidedAt ==
  IF Decisive = {} THEN Len(res.rem)
  ELSE CHOOSE i \in Decisive : \A j \in Decisive : i <= j

C16_ShortCircuit ==
  res.op \in {"find", "findIndex", "every", "some", "includes"} =>
    LET cursor == heap[res.on].iterator
        taken == SelectSeq(OpPullsOn(cursor), LAMBDA x : ~x.step.done)
        later == SelectSeq(PullsAfterOp, LAMBDA x : x.on = cursor)
    IN /\ Len(taken) = DecidedAt
       /\ Decisive # {} => Len(OpPullsOn(cursor)) = DecidedAt
       /\ \A i \in 1..Len(later) :
            IF DecidedAt + i <= Len(res.rem)
            THEN later[i].step = Step(FALSE, res.rem[DecidedAt + i])
            ELSE later[i].step.done

(***************************************************************************)
(* C17: no look-ahead.  Each pull on a map-derived Seq issues exactly one   *)
(* pull on its source's cursor; each pull on a filter-derived Seq issues    *)
(* pulls on its source's cursor up to and including the first element       *)
(* satisfying the predicate, or the exhaustion report, and none beyond; a   *)
(* pull on a directly wrapped Seq issues exactly one pull on the wrapped    *)
(* cursor.                                                                 *)
(***************************************************************************)
\* the j-th result a filter closure received ends the pull it was issued in:
\* it is exhaustion or an element the predicate holds of at index j - 1
EndsPull(fn, ps, j) ==
  ps[j].step.done \/ Truthy(CallbackValue(fn, <<ps[j].step.value>>, j - 1))

C17_NoLookAhead ==
  /\ \A m \in Closures("map") :
       Len(PullsBy(m, heap[heap[m].this].iterator)) = Len(PullsOn(m))
  /\ \A f \in Closures("filter") :
       LET ps == PullsBy(f, heap[heap[f].this].iterator)
       IN /\ Cardinality({j \in 1..Len(ps) : EndsPull(heap[f].fn, ps, j)}) = Len(PullsOn(f))
          /\ ps # <<>> => EndsPull(heap[f].fn, ps, Len(ps))
  /\ \A s \in Seqs :
       Len(PullsBy(s, heap[s].iterator)) = Len(PullsOn(s))

\* one pull on s.filter(isZero) has found 0 at once: the filter pulled the
\* cursor of s once, and the element after the 0 is still in the array
C17_Witness ==
  \E f \in Closures("filter") :
    LET cursor == heap[heap[heap[f].this].iterator]
    IN /\ heap[f].fn = "isZero"
       /\ Len(PullsOn(f)) = 1
       /\ Len(PullsBy(f, heap[heap[f].this].iterator)) = 1
       /\ cursor.pos < Len(cursor.arr)

(***************************************************************************)
(* C18: every pull on a zip Seq issues exactly one pull on each of its two  *)
(* sources, the pull on which the first source reports exhaustion included. *)
(* When the zip first reports exhaustion, a strictly longer source has had  *)
(* exactly min(|a|, |b|) + 1 of its elements consumed, whichever source is  *)
(* the shorter.                                                            *)
(***************************************************************************)
\* the last of steps is exhausted and no earlier one is
FirstExhausted(steps) ==
  /\ steps # <<>>
  /\ \A i \in 1..Len(steps) : steps[i].step.done = (i = Len(steps))

C18_ZipPullsBothSources ==
  \A z \in Closures("zip") :
    LET source1 == heap[heap[z].iterator]
        source2 == heap[heap[z].iterator2]
        shorter == Min(Len(source1.arr), Len(source2.arr))
    IN /\ Len(PullsBy(z, heap[z].iterator)) = Len(PullsOn(z))
       /\ Len(PullsBy(z, heap[z].iterator2)) = Len(PullsOn(z))
       /\ FirstExhausted(OutOn(SeqOver(z))) =>
            /\ Len(source1.arr) > shorter => source1.pos = shorter + 1
            /\ Len(source2.arr) > shorter => source2.pos = shorter + 1

\* the zip of a one-element and a two-element array has just reported
\* exhaustion: the second element of the longer array is consumed
C18_Witness ==
  \E z \in Closures("zip") :
    /\ Len(heap[heap[z].iterator].arr) = 1
    /\ Len(heap[heap[z].iterator2].arr) = 2
    /\ FirstExhausted(OutOn(SeqOver(z)))
    /\ heap[heap[z].iterator2].pos = 2

(***************************************************************************)
(* Seq.forEach.                                                            *)
(***************************************************************************)
\* the for loop of forEach (lines 48-54), about to pull with counter index
RECURSIVE ForEachLoop(_, _, _, _)
ForEachLoop(e, s, fn, index) ==
  LetIn(IterNext(e, s, e.heap[s].iterator), LAMBDA item :
    IF item.err # "" THEN Outcome(item.e, Undef, item.err)
    ELSE IF item.step.done THEN Outcome(item.e, Undef, "")
    ELSE LetIn(Call(item.e, fn, <<item.step.value>>, index, s), LAMBDA c :
           IF c.err # "" THEN Outcome(c.e, Undef, c.err)
           ELSE ForEachLoop(c.e, s, fn, index + 1)))

\* Seq.forEach (lines 45-55)
SeqForEach(e, s, fn) == ForEachLoop(e, s, fn, 0)

\* the consumer calls s.forEach(fn)
ForEach(s, fn) ==
  \E r \in {SeqForEach(Cur, s, fn)} : Terminal("forEach", s, fn, Undef, r)

(***************************************************************************)
(* SpecIndex: the operations that report indices (find, findIndex,          *)
(* includes, reduce, forEach) on the starting Seq, before, between and      *)
(* after pulls by the consumer.                                            *)
(***************************************************************************)
\* forEach allocates nothing: it is not called twice in a row
ForEachBase == res.op # "forEach" /\ ForEach(Base, "f")

IncludesFrom ==
  \E searchElement \in {Undef, Num(1)}, fromIndex \in {Num(0), Num(1)} :
    Includes(Base, searchElement, fromIndex)

NextIndex ==
  \/ NextBase
  \/ FindBase
  \/ FindIndexBase
  \/ IncludesFrom
  \/ ReduceBase
  \/ ForEachBase

SpecIndex == InitOf /\ [][NextIndex]_vars

(***************************************************************************)
(* C19: callback indices count from the first element the Seq has left when *)
(* the operation is called, not from the start of the root source: find,    *)
(* findIndex and forEach report the i-th remaining element with index       *)
(* i - 1, reduce likewise (from index 1 after the seed when no initial      *)
(* value is given), findIndex returns the position of the match among the   *)
(* remaining elements, and includes compares fromIndex with that position.  *)
(***************************************************************************)
C19_IndicesRelativeToTraversal ==
  /\ res.op \in {"find", "findIndex", "forEach"} =>
       /\ res.rem # <<>> => OpCalls # <<>>
       /\ \A i \in 1..Len(OpCalls) :
            OpCalls[i].args = <<res.rem[i]>> /\ OpCalls[i].index = i - 1
  /\ res.op = "findIndex" =>
       res.ret = (IF Matches = {} THEN Num(-1) ELSE Num(FirstMatch - 1))
  /\ (res.op = "reduce" /\ res.arg # Undef) =>
       /\ res.rem # <<>> => OpCalls # <<>>
       /\ \A i \in 1..Len(OpCalls) :
            OpCalls[i].args[2] = res.rem[i] /\ OpCalls[i].index = i - 1
  /\ (res.op = "reduce" /\ res.arg = Undef) =>
       /\ Len(res.rem) >= 2 => OpCalls # <<>>
       /\ \A i \in 1..Len(OpCalls) :
            OpCalls[i].args[2] = res.rem[i + 1] /\ OpCalls[i].index = i
  /\ res.op = "includes" =>
       res.ret = Bool(\E i \in 1..Len(res.rem) :
                        i - 1 >= res.items[1].n /\ res.rem[i] = res.arg)

(***************************************************************************)
(* SpecThrow: callbacks that throw on the element 1.  Either one map or     *)
(* one filter with such a callback is derived from the starting Seq and     *)
(* pulled, or forEach, find and reduce are run on the starting Seq with     *)
(* such a callback and the Seq is pulled afterwards.                        *)
(***************************************************************************)
\* a map or filter has been derived from the starting Seq
Adapted ==
  /\ Len(heap) > Base
  /\ heap[Base + 1].kind \in {"map", "filter"}
  /\ heap[Base + 1].fn \in {"keepOrThrow", "skipOrThrow"}

\* the consumer pulls the derived Seq if there is one, else the starting Seq
NextThrow == IF Adapted THEN Next_(Base + 2) ELSE Next_(Base)

\* an adapter is derived only from a Seq no terminal operation has run on
MapThrow == Underived /\ res.op = "" /\ Map(Base, "keepOrThrow")

FilterThrow ==
  \E p \in {"keepOrThrow", "skipOrThrow"} : Underived /\ res.op = "" /\ Filter(Base, p)

ForEachThrow == ~Adapted /\ res.op # "forEach" /\ ForEach(Base, "keepOrThrow")

FindThrow == ~Adapted /\ Find(Base, "skipOrThrow")

ReduceThrow ==
  \E initialValue \in {Undef, Num(0)} :
    ~Adapted /\ Reduce(Base, "skipOrThrow", initialValue)

NextThrowing ==
  \/ NextThrow
  \/ MapThrow
  \/ FilterThrow
  \/ ForEachThrow
  \/ FindThrow
  \/ ReduceThrow

SpecThrow == InitOf /\ [][NextThrowing]_vars

(***************************************************************************)
(* C20: an error thrown by a callback during a pull on a map- or            *)
(* filter-derived Seq, or during forEach, find or reduce, reaches the       *)
(* caller as it was thrown.  The source element the callback was given is   *)
(* consumed and not delivered again; the next pull continues with the next  *)
(* source element: the failure neither exhausts nor rewinds the Seq.        *)
(***************************************************************************)
\* what a pull ended in: an error, an element or exhaustion
KindOf(y) ==
  IF y.err # "" THEN "error" ELSE IF y.step.done THEN "exhausted" ELSE "element"

\* what the pulls on a Seq derived by `kind` with callback fn are to end in,
\* one source element after the other, for the source elements xs
RECURSIVE ExpectedPulls(_, _, _)
ExpectedPulls(kind, fn, xs) ==
  IF xs = <<>> THEN <<>>
  ELSE LET x == Head(xs)
           rest == ExpectedPulls(kind, fn, Tail(xs))
       IN IF x = Num(1) THEN <<[kind |-> "error", value |-> x]>> \o rest
          ELSE IF kind = "map" \/ fn = "keepOrThrow"
          THEN <<[kind |-> "element", value |-> x]>> \o rest
          ELSE rest

\* the elements the operation hands to its callback as the current element
Folded == IF res.op = "reduce" /\ res.arg = Undef /\ res.rem # <<>> THEN Tail(res.rem) ELSE res.rem

\* the positions in res.rem of the elements the callback throws on and the
\* traversal reaches: find and reduce stop at an undefined element before
ThrowsAt ==
  LET seed == Len(res.rem) - Len(Folded)
  IN {i \in (seed + 1)..Len(res.rem) :
        /\ res.rem[i] = Num(1)
        /\ res.op # "forEach" => \A j \in 1..i : res.rem[j] # Undef}

FirstThrow == CHOOSE i \in ThrowsAt : \A j \in ThrowsAt : i <= j

C20_CallbackErrorPropagates ==
  /\ \A c \in Closures("map") \cup Closures("filter") :
       heap[c].fn \in {"keepOrThrow", "skipOrThrow"} =>
         LET ys == OutOn(SeqOver(c))
             expected == ExpectedPulls(heap[c].kind, heap[c].fn, Remaining(heap[c].this))
         IN \A i \in 1..Len(ys) :
              /\ ys[i].err \in {"", ErrCallback}
              /\ IF i <= Len(expected)
                 THEN /\ KindOf(ys[i]) = expected[i].kind
                      /\ (heap[c].kind = "filter" /\ expected[i].kind = "element")
                           => ys[i].step.value = expected[i].value
                 ELSE KindOf(ys[i]) = "exhausted"
  /\ (res.op \in {"forEach", "find", "reduce"} /\ res.fn \in {"keepOrThrow", "skipOrThrow"}
        /\ ThrowsAt # {}) =>
       LET cursor == heap[res.on].iterator
           later == SelectSeq(PullsAfterOp, LAMBDA x : x.on = cursor)
       IN /\ res.err = ErrCallback
          /\ Len(OpPullsOn(cursor)) = FirstThrow
          /\ \A i \in 1..Len(later) :
               IF FirstThrow + i <= Len(res.rem)
               THEN later[i].step = Step(FALSE, res.rem[FirstThrow + i])
               ELSE later[i].step.done

\* a map whose callback throws on 1 was derived from a Seq with 1, 0 left:
\* the first pull threw the callback's error, the second produced an element
C20_Witness ==
  \E c \in Closures("map") :
    LET ys == OutOn(SeqOver(c))
    IN /\ heap[c].fn = "keepOrThrow"
       /\ Remaining(heap[c].this) = <<Num(1), Num(0)>>
       /\ Len(ys) = 2
       /\ ys[1].err = ErrCallback
       /\ KindOf(ys[2]) = "element"

====
